---- MODULE Spec2Model ----
(***************************************************************************)
(* A model of common/paradox_parser.py: ParadoxParser (parse_file,         *)
(* parse_files, parse_folder_as_one_file, _really_parse_file, _run_rakaly, *)
(* _parse_json) and the Tree values it builds.                             *)
(*                                                                         *)
(* A path is a sequence of components (pathlib compares paths part by      *)
(* part); a component is a number standing for a name, ordered as the      *)
(* names are.  The temporary directory is component 0.                     *)
(* A JSON document and a Tree value are records [kind, val, items]; the    *)
(* members of an object and the entries of a Tree's dictionary are records *)
(* [key, value], kept in insertion order as a Python dict keeps them.      *)
(***************************************************************************)
EXTENDS Integers, Sequences, FiniteSets, TLC

VARIABLES
    op,            \* the public method in progress: "none", "parse_file", "parse_files", "parse_folder_as_one_file"
    workarounds,   \* whether the workarounds argument is a non-empty list (its truth value, line 129)
    overwrite,     \* overwrite_duplicate_toplevel_keys
    listing,       \* the order in which Path.glob enumerated the matching files
    queue,         \* sorted(... .glob(glob)): the files the loop runs over
    idx,           \* position of the loop in queue (the file being parsed), 0 before the loop
    pc,            \* position of the control flow, see Positions
    tempFilename,  \* temp_filename of the _really_parse_file in progress, <<>> when none
    tempFiles,     \* the temporary files that exist in the file system
    invoked,       \* the game files rakaly was run for during this call (on them or on their rewritten copy), in order
    stderr,        \* rakaly_result.stderr of the last run that exited non-zero
    returned,      \* the Tree the last _really_parse_file returned
    parsed,        \* the per-file Trees parse_folder_as_one_file has folded so far, in order
    yielded,       \* the files of the pairs the parse_files generator has yielded
    result,        \* parse_folder_as_one_file's result Tree
    outcome,       \* how the call (or the last advance of the generator) ended
    error,         \* the arguments of the Exception raised by _run_rakaly
    advances,      \* number of times the consumer has called next() on the generator
    source,        \* the statements of the file a Tree under study was parsed from
    receiver,      \* that Tree (the receiver of the Tree methods)
    history,       \* the Tree methods called on receiver, in order
    arg,           \* the key argument of the last one, "" when it has none
    out,           \* what the last one returned (one element) or yielded (in order)
    raisedT,       \* the exception the last one raised, "" when none
    fileText,      \* the contents of a game file to be rewritten
    wlist,         \* the workarounds argument: a list of workarounds, each a list of pattern/replacement pairs
    contents,      \* the local contents of _really_parse_file, lines 131-133
    wpos,          \* number of workarounds applied to contents
    rewriting      \* position of the rewrite: "none", "read", "written"

parserVars == <<op, workarounds, overwrite, listing, queue, idx, pc, tempFilename, tempFiles,
                invoked, stderr, returned, parsed, yielded, result, outcome, error, advances>>

treeVars == <<source, receiver, history, arg, out, raisedT>>

textVars == <<fileText, wlist, contents, wpos, rewriting>>

vars == <<parserVars, treeVars, textVars>>

----------------------------------------------------------------------------
(* Bounds of the model *)

\* at most this many files match a glob
MaxFiles == 3
\* at most this many Tree methods are called on one Tree
MaxCalls == 2
\* a file under the workarounds has at most this many characters
MaxTextLen == 3
\* a file with list statements is made of at most this many pieces
MaxPieces == 4
\* longest text rakaly writes to standard error
MaxErrLen == 2
\* number of names mkstemp can choose from
NumTempNames == 2

----------------------------------------------------------------------------
(* Sequences *)

Range(s) == {s[i] : i \in DOMAIN s}

SeqsUpTo(S, n) == UNION {[1..m -> S] : m \in 0..n}

\* the sequences that enumerate the set S, each element once
Enumerations(S) == {s \in [1..Cardinality(S) -> S] : Range(s) = S}

Min(a, b) == IF a < b THEN a ELSE b

----------------------------------------------------------------------------
(* Paths *)

\* the game files a glob may match: a.txt, b/a.txt, b/c.txt, c.txt
GamePaths == {<<1>>, <<2, 1>>, <<2, 3>>, <<3>>}

TempPath(t) == <<0, t>>

TempNames == {TempPath(t) : t \in 1..NumTempNames}

\* what Path.glob may produce: the matching files in any order
GlobListings == UNION {Enumerations(S) : S \in {T \in SUBSET GamePaths : Cardinality(T) <= MaxFiles}}

\* Path.__lt__: the parts compared as sequences
PathLess(p, q) ==
    \E i \in 1..(Min(Len(p), Len(q)) + 1) :
        /\ \A j \in 1..(i - 1) : p[j] = q[j]
        /\ \/ i > Len(p) /\ i <= Len(q)
           \/ i <= Len(p) /\ i <= Len(q) /\ p[i] < q[i]

RECURSIVE InsertSorted(_, _)
InsertSorted(p, s) ==
    IF s = <<>> THEN <<p>>
    ELSE IF PathLess(p, Head(s)) THEN <<p>> \o s
    ELSE <<Head(s)>> \o InsertSorted(p, Tail(s))

RECURSIVE SortedFrom(_, _)
SortedFrom(acc, s) ==
    IF s = <<>> THEN acc ELSE SortedFrom(InsertSorted(Head(s), acc), Tail(s))

\* a faulty variant of sorted: the glob's order used as it comes
UnsortedGlob(s) == s

\* sorted(glob): ascending by Path.__lt__
Sorted(s) == SortedFrom(<<>>, s)

----------------------------------------------------------------------------
(* JSON documents and Tree values *)

JScalar(n) == [kind |-> "scalar", val |-> n, items |-> <<>>]
JArray(s) == [kind |-> "array", val |-> 0, items |-> s]
JObject(s) == [kind |-> "object", val |-> 0, items |-> s]
Entry(k, v) == [key |-> k, value |-> v]

Scalar(n) == [kind |-> "scalar", val |-> n, items |-> <<>>]
List(s) == [kind |-> "list", val |-> 0, items |-> s]
Tree(d) == [kind |-> "Tree", val |-> 0, items |-> d]

IsTree(v) == v.kind = "Tree"
IsList(v) == v.kind = "list"

\* json.loads(..., object_hook=Tree): objects become Trees, arrays lists
RECURSIVE ParseJson(_)
ParseJson(j) ==
    CASE j.kind = "object" ->
            Tree([i \in DOMAIN j.items |->
                    Entry(j.items[i].key, ParseJson(j.items[i].value))])
      [] j.kind = "array" ->
            List([i \in DOMAIN j.items |-> ParseJson(j.items[i])])
      [] OTHER -> Scalar(j.val)

\* what rakaly prints for the files of the model (duplicate keys grouped)
Docs == {
    JObject(<<Entry("a", JScalar(1))>>),
    JObject(<<Entry("b", JScalar(2)), Entry("a", JScalar(2))>>),
    JObject(<<Entry("a", JArray(<<JScalar(1), JScalar(2)>>))>>),
    JObject(<<Entry("a", JObject(<<Entry("x", JScalar(1))>>))>>),
    JObject(<<Entry("a", JObject(<<Entry("y", JScalar(2))>>))>>),
    JObject(<<Entry("a", JObject(<<Entry("x", JObject(<<Entry("p", JScalar(1))>>))>>))>>),
    JObject(<<Entry("a", JObject(<<Entry("x", JObject(<<Entry("q", JScalar(2))>>))>>))>>),
    JObject(<<Entry("b", JScalar(1))>>)
}

\* the texts rakaly may write to standard error
StderrTexts == SeqsUpTo({"e", "\n"}, MaxErrLen)

----------------------------------------------------------------------------
(* dict *)

DictKeys(d) == {d[i].key : i \in DOMAIN d}

\* key in d
Contains(d, k) == k \in DictKeys(d)

\* d[key]
GetItem(d, k) == d[CHOOSE i \in DOMAIN d : d[i].key = k].value

\* a faulty variant of SetItem: a key that is set again moves to the end
SetItemAtEnd(d, k, v) ==
    Append(SelectSeq(d, LAMBDA e : e.key # k), Entry(k, v))

\* d[key] = value: a present key keeps its place, a new key goes last
SetItem(d, k, v) ==
    IF Contains(d, k)
    THEN [i \in DOMAIN d |-> IF d[i].key = k THEN Entry(k, v) ELSE d[i]]
    ELSE Append(d, Entry(k, v))

\* d.update(e) for the entries e of a mapping
RECURSIVE DictUpdate(_, _)
DictUpdate(d, e) ==
    IF e = <<>> THEN d
    ELSE DictUpdate(SetItem(d, Head(e).key, Head(e).value), Tail(e))

\* the outcome of dict.update(value) at line 104, value a Tree, a list or a scalar.
\* A Tree is a Mapping with keys(): its pairs are applied.  A number is not
\* iterable: TypeError.  A list is read as a sequence of key/value pairs: none
\* is needed of an empty list, a number is no pair (TypeError), a Tree or list
\* whose length is not 2 is no pair (ValueError).  (No list of Docs holds an
\* element of length 2.)
UpdateFrom(d, value) ==
    CASE IsTree(value) -> [raised |-> "", dict |-> DictUpdate(d, value.items)]
      [] IsList(value) /\ value.items = <<>> -> [raised |-> "", dict |-> d]
      [] IsList(value) /\ value.items # <<>> /\ Head(value.items).kind = "scalar" ->
            [raised |-> "TypeError", dict |-> d]
      [] IsList(value) /\ value.items # <<>> /\ Head(value.items).kind # "scalar"
            /\ Len(Head(value.items).items) # 2 ->
            [raised |-> "ValueError", dict |-> d]
      [] value.kind = "scalar" -> [raised |-> "TypeError", dict |-> d]

\* a faulty variant of MergeIntoTree: Trees of the same name are merged at every depth
RECURSIVE DeepUpdate(_, _)
DeepUpdate(d, e) ==
    IF e = <<>> THEN d
    ELSE LET k == Head(e).key
             v == Head(e).value
         IN  IF Contains(d, k) /\ IsTree(GetItem(d, k)) /\ IsTree(v)
             THEN DeepUpdate(SetItem(d, k, Tree(DeepUpdate(GetItem(d, k).items, v.items))), Tail(e))
             ELSE DeepUpdate(SetItem(d, k, v), Tail(e))

MergeIntoTreeDeep(old, value) ==
    IF IsTree(value)
    THEN [raised |-> "", value |-> Tree(DeepUpdate(old.items, value.items))]
    ELSE [raised |-> UpdateFrom(old.items, value).raised, value |-> old]

\* line 104: result.dictionary[key].dictionary.update(value), the slot a Tree
MergeIntoTree(old, value) ==
    LET u == UpdateFrom(old.items, value)
    IN  [raised |-> u.raised, value |-> Tree(u.dict)]

\* a faulty variant of AppendToList: list.extend, the elements of a later list added one by one
ExtendList(old, value) ==
    IF IsList(value) THEN List(old.items \o value.items) ELSE List(Append(old.items, value))

\* line 106: result.dictionary[key].append(value), the slot a list
AppendToList(old, value) == List(Append(old.items, value))

\* a faulty variant of MakePair: the later value put first
MakePairSwapped(old, value) == List(<<value, old>>)

\* line 108: [result.dictionary[key], value], the slot neither a Tree nor a list
MakePair(old, value) == List(<<old, value>>)

\* a faulty variant of FirstBinding: a new key starts as a list of one value
FirstBindingAsList(value) == List(<<value>>)

\* line 110: result.dictionary[key] = value, the key new to the result
FirstBinding(value) == value

\* lines 102-110: one key/value pair of a file folded into result.dictionary
MergeEntry(d, key, value) ==
    IF Contains(d, key)
    THEN LET old == GetItem(d, key)
         IN  IF IsTree(old)
             THEN LET m == MergeIntoTree(old, value)
                  IN  [raised |-> m.raised, dict |-> SetItem(d, key, m.value)]
             ELSE IF IsList(old)
             THEN [raised |-> "", dict |-> SetItem(d, key, AppendToList(old, value))]
             ELSE [raised |-> "", dict |-> SetItem(d, key, MakePair(old, value))]
    ELSE [raised |-> "", dict |-> SetItem(d, key, FirstBinding(value))]

\* lines 101-110: the loop over the pairs of one file; it stops where a pair raises
RECURSIVE MergeFile(_, _)
MergeFile(d, e) ==
    IF e = <<>> THEN [raised |-> "", dict |-> d]
    ELSE LET m == MergeEntry(d, Head(e).key, Head(e).value)
         IN  IF m.raised # "" THEN m ELSE MergeFile(m.dict, Tail(e))

\* a faulty variant of OverwriteFile: a key the result already has keeps its value
RECURSIVE KeepFirstFile(_, _)
KeepFirstFile(d, e) ==
    IF e = <<>> THEN d
    ELSE IF Contains(d, Head(e).key) THEN KeepFirstFile(d, Tail(e))
    ELSE KeepFirstFile(SetItem(d, Head(e).key, Head(e).value), Tail(e))

\* line 99: result.dictionary.update(tree.dictionary)
OverwriteFile(d, e) == DictUpdate(d, e)

\* lines 98-110: one file folded into result.dictionary under the policy
FoldFile(ow, d, e) ==
    IF ow THEN [raised |-> "", dict |-> OverwriteFile(d, e)] ELSE MergeFile(d, e)

----------------------------------------------------------------------------
(* _run_rakaly and the temporary file *)

\* line 147: str(stderr, 'UTF-8')[:-1]
ErrorMessage(s) == SubSeq(s, 1, Len(s) - 1)

\* a faulty variant of OsRemove: the file is left behind
LeaveTempFile(files, name) == files

\* line 140: os.remove(temp_filename)
OsRemove(files, name) == files \ {name}

NoTree == [kind |-> "none", val |-> 0, items |-> <<>>]
NoError == [path |-> <<>>, diagnostic |-> <<>>]

----------------------------------------------------------------------------
(* The state machine *)

\* Positions of the control flow (pc):
\*   "idle"             no call in progress, no result or generator held
\*   "enter"            about to execute _really_parse_file(queue[idx])
\*   "direct"           line 142 reached: no workaround, rakaly not yet run
\*   "rewrite_pending"  line 134 done: the temporary file exists, not yet written
\*   "invoked"          subprocess.run is waiting for rakaly
\*   "created"          parse_files has returned its generator, the body has not run
\*   "suspended"        the generator is suspended at its yield
\*   "exhausted"        the generator has finished: next() raises StopIteration
\*   "returned"         the call has returned its Tree
\*   "raised"           the call (or the generator's advance) has raised
Positions == {"idle", "enter", "direct", "rewrite_pending", "invoked",
              "created", "suspended", "exhausted", "returned", "raised"}

\* the caller holds no call's result or generator and makes the next call
CanCall == pc = "idle"

\* the caller holds the control flow: the call, or the generator's advance, has ended
Ended == pc \in {"created", "suspended", "exhausted", "returned", "raised"}

\* no Tree is under study
NoTreeStudy ==
    /\ source = <<>>
    /\ receiver = NoTree
    /\ history = <<>>
    /\ arg = ""
    /\ out = <<>>
    /\ raisedT = ""

\* no file text is under study
NoTextStudy ==
    /\ fileText = <<>>
    /\ wlist = <<>>
    /\ contents = <<>>
    /\ wpos = 0
    /\ rewriting = "none"

ParserInit ==
    /\ op = "none"
    /\ workarounds = FALSE
    /\ overwrite = TRUE
    /\ listing = <<>>
    /\ queue = <<>>
    /\ idx = 0
    /\ pc = "idle"
    /\ tempFilename = <<>>
    /\ tempFiles = {}
    /\ invoked = <<>>
    /\ stderr = <<>>
    /\ returned = NoTree
    /\ parsed = <<>>
    /\ yielded = <<>>
    /\ result = Tree(<<>>)
    /\ outcome = "none"
    /\ error = NoError
    /\ advances = 0

Init == ParserInit /\ NoTreeStudy /\ NoTextStudy

\* the locals of a fresh call
FreshCall ==
    /\ tempFilename' = <<>>
    /\ invoked' = <<>>
    /\ stderr' = <<>>
    /\ returned' = NoTree
    /\ parsed' = <<>>
    /\ yielded' = <<>>
    /\ result' = Tree(<<>>)
    /\ error' = NoError
    /\ advances' = 0
    /\ UNCHANGED <<tempFiles, treeVars, textVars>>

\* parse_file(relative_path, workarounds), lines 113-126
CallParseFile ==
    /\ CanCall
    /\ \E file \in GamePaths, wa \in BOOLEAN :
        /\ op' = "parse_file"
        /\ workarounds' = wa
        /\ queue' = <<file>>
    /\ overwrite' = TRUE
    /\ listing' = <<>>
    /\ idx' = 1
    /\ pc' = "enter"
    /\ outcome' = "none"
    /\ FreshCall

\* parse_files(glob, workarounds), lines 55-69: the call only creates the generator
CallParseFiles ==
    /\ CanCall
    /\ \E wa \in BOOLEAN : workarounds' = wa
    /\ op' = "parse_files"
    /\ overwrite' = TRUE
    /\ listing' = <<>>
    /\ queue' = <<>>
    /\ idx' = 0
    /\ pc' = "created"
    /\ outcome' = "none"
    /\ FreshCall

\* parse_folder_as_one_file(...), lines 93-97 and, of an empty folder, line 111
CallParseFolder ==
    /\ CanCall
    /\ \E ls \in GlobListings, wa \in BOOLEAN, ow \in BOOLEAN :
        /\ op' = "parse_folder_as_one_file"
        /\ workarounds' = wa
        /\ overwrite' = ow
        /\ listing' = ls
        /\ queue' = Sorted(ls)
        /\ IF ls = <<>>
           THEN idx' = 0 /\ pc' = "returned" /\ outcome' = "Tree"
           ELSE idx' = 1 /\ pc' = "enter" /\ outcome' = "none"
    /\ FreshCall

\* next() on the generator of parse_files, lines 68-69, up to the call at line 69
Advance ==
    /\ op = "parse_files"
    /\ pc \in {"created", "suspended", "exhausted", "raised"}
    /\ advances <= Len(queue)
    /\ advances' = advances + 1
    /\ CASE pc = "created" ->
              \E ls \in GlobListings :
                /\ listing' = ls
                /\ queue' = Sorted(ls)
                /\ IF ls = <<>>
                   THEN idx' = 0 /\ pc' = "exhausted" /\ outcome' = "StopIteration"
                   ELSE idx' = 1 /\ pc' = "enter" /\ outcome' = "none"
         [] pc = "suspended" ->
                /\ UNCHANGED <<listing, queue>>
                /\ IF idx < Len(queue)
                   THEN idx' = idx + 1 /\ pc' = "enter" /\ outcome' = "none"
                   ELSE idx' = idx /\ pc' = "exhausted" /\ outcome' = "StopIteration"
         [] OTHER ->
                /\ UNCHANGED <<listing, queue, idx>>
                /\ pc' = "exhausted"
                /\ outcome' = "StopIteration"
    /\ UNCHANGED <<op, workarounds, overwrite, tempFilename, tempFiles, invoked, stderr,
                   returned, parsed, yielded, result, error>>
    /\ UNCHANGED <<treeVars, textVars>>

\* a faulty variant of Raise: the generator of parse_files skips a file that fails
SkipFailedFile(kind) ==
    /\ returned' = NoTree
    /\ parsed' = <<>>
    /\ result' = Tree(<<>>)
    /\ IF op = "parse_files" /\ idx < Len(queue)
       THEN idx' = idx + 1 /\ pc' = "enter" /\ outcome' = "none"
       ELSE idx' = idx /\ pc' = "raised" /\ outcome' = kind

\* a faulty variant of Raise: a file that rakaly rejected is parsed once more
RetryFailedFile(kind) ==
    /\ idx' = idx
    /\ returned' = NoTree
    /\ parsed' = <<>>
    /\ result' = Tree(<<>>)
    /\ IF kind = "Exception" /\ Cardinality({i \in DOMAIN invoked : invoked[i] = queue[idx]}) < 2
       THEN pc' = "enter" /\ outcome' = "none"
       ELSE pc' = "raised" /\ outcome' = kind

\* a faulty variant of Raise: the folder call swallows the exception and returns
\* what it has merged
ReturnMerged(kind) ==
    /\ idx' = idx
    /\ IF op = "parse_folder_as_one_file"
       THEN /\ pc' = "returned"
            /\ outcome' = "Tree"
            /\ UNCHANGED <<returned, parsed, result>>
       ELSE /\ pc' = "raised"
            /\ outcome' = kind
            /\ returned' = NoTree
            /\ parsed' = <<>>
            /\ result' = Tree(<<>>)

\* an exception leaves _really_parse_file or the fold, lines 69, 99, 101-108 and 126: no
\* caller catches it, the frames and their locals (result, the per-file Trees) are gone
Raise(kind) ==
    /\ idx' = idx
    /\ pc' = "raised"
    /\ outcome' = kind
    /\ returned' = NoTree
    /\ parsed' = <<>>
    /\ result' = Tree(<<>>)

\* _really_parse_file, lines 129-134 and 141: the branch on workarounds; with
\* workarounds the file is read and rewritten and mkstemp creates the temporary file
BeginParse ==
    /\ pc = "enter"
    /\ IF workarounds
       THEN \E name \in TempNames \ tempFiles :
                /\ tempFilename' = name
                /\ tempFiles' = tempFiles \cup {name}
                /\ pc' = "rewrite_pending"
       ELSE /\ pc' = "direct"
            /\ UNCHANGED <<tempFilename, tempFiles>>
    /\ UNCHANGED <<op, workarounds, overwrite, listing, queue, idx, invoked, stderr,
                   returned, parsed, yielded, result, outcome, error, advances>>
    /\ UNCHANGED <<treeVars, textVars>>

\* lines 130-134 raise: the file cannot be read or mkstemp fails (no temporary file exists)
BeginParseRaises ==
    /\ pc = "enter"
    /\ workarounds
    /\ Raise("OSError")
    /\ UNCHANGED <<op, workarounds, overwrite, listing, queue, tempFilename, tempFiles,
                   invoked, stderr, yielded, error, advances>>
    /\ UNCHANGED <<treeVars, textVars>>

\* a faulty variant of RakalyFile: rakaly is run on the game file on both paths
RakalyGameFile == queue[idx]

\* the file rakaly is run on: line 138 or line 142
RakalyFile == IF workarounds THEN tempFilename ELSE queue[idx]

\* lines 136-138 / 142 and 145: the rewritten text is written and rakaly is started
Invoke ==
    /\ pc \in {"direct", "rewrite_pending"}
    /\ invoked' = Append(invoked, queue[idx])
    /\ pc' = "invoked"
    /\ UNCHANGED <<op, workarounds, overwrite, listing, queue, idx, tempFilename, tempFiles,
                   stderr, returned, parsed, yielded, result, outcome, error, advances>>
    /\ UNCHANGED <<treeVars, textVars>>

\* lines 136-138 / 142 raise (the write fails, rakaly cannot be started); finally at 139-140
InvokeRaises ==
    /\ pc \in {"direct", "rewrite_pending"}
    /\ tempFiles' = IF workarounds THEN OsRemove(tempFiles, tempFilename) ELSE tempFiles
    /\ tempFilename' = <<>>
    /\ Raise("OSError")
    /\ UNCHANGED <<op, workarounds, overwrite, listing, queue, invoked, stderr,
                   yielded, error, advances>>
    /\ UNCHANGED <<treeVars, textVars>>

\* lines 146-148, then finally at 139-140: rakaly exits non-zero
ExitNonZero ==
    /\ pc = "invoked"
    /\ \E text \in StderrTexts :
        /\ stderr' = text
        /\ error' = [path |-> RakalyFile, diagnostic |-> ErrorMessage(text)]
    /\ tempFiles' = IF workarounds THEN OsRemove(tempFiles, tempFilename) ELSE tempFiles
    /\ tempFilename' = <<>>
    /\ Raise("Exception")
    /\ UNCHANGED <<op, workarounds, overwrite, listing, queue, invoked, yielded, advances>>
    /\ UNCHANGED <<treeVars, textVars>>

\* a faulty variant of YieldPair: the files are parsed ahead of the consumer
YieldAndGoOn(tree) ==
    /\ returned' = tree
    /\ yielded' = Append(yielded, queue[idx])
    /\ IF idx < Len(queue)
       THEN idx' = idx + 1 /\ pc' = "enter" /\ outcome' = "none"
       ELSE idx' = idx /\ pc' = "suspended" /\ outcome' = "Tree"
    /\ UNCHANGED <<parsed, result>>

\* line 69: yield file, tree; the generator waits for the next advance
YieldPair(tree) ==
    /\ returned' = tree
    /\ yielded' = Append(yielded, queue[idx])
    /\ pc' = "suspended"
    /\ outcome' = "Tree"
    /\ UNCHANGED <<idx, parsed, result>>

\* what the caller of _really_parse_file does with the Tree: return it (line 126),
\* yield it (line 69), or fold it into result and go on (lines 97-111)
Deliver(tree) ==
    CASE op = "parse_file" ->
           /\ returned' = tree
           /\ pc' = "returned"
           /\ outcome' = "Tree"
           /\ UNCHANGED <<idx, parsed, yielded, result>>
      [] op = "parse_files" -> YieldPair(tree)
      [] op = "parse_folder_as_one_file" ->
           LET m == FoldFile(overwrite, result.items, tree.items)
           IN  /\ UNCHANGED yielded
               /\ IF m.raised # ""
                  THEN Raise(m.raised)
                  ELSE /\ returned' = tree
                       /\ parsed' = Append(parsed, tree)
                       /\ result' = Tree(m.dict)
                       /\ IF idx < Len(queue)
                          THEN idx' = idx + 1 /\ pc' = "enter" /\ outcome' = "none"
                          ELSE idx' = idx /\ pc' = "returned" /\ outcome' = "Tree"

\* lines 149-152, finally at 139-140, then the caller: rakaly exits with 0
ExitZero ==
    /\ pc = "invoked"
    /\ \E doc \in Docs : Deliver(ParseJson(doc))
    /\ tempFiles' = IF workarounds THEN OsRemove(tempFiles, tempFilename) ELSE tempFiles
    /\ tempFilename' = <<>>
    /\ UNCHANGED <<op, workarounds, overwrite, listing, queue, invoked, stderr, error, advances>>
    /\ UNCHANGED <<treeVars, textVars>>

\* the caller drops the Tree, the exception or the generator it was given
Finish ==
    /\ Ended
    /\ op' = "none"
    /\ workarounds' = FALSE
    /\ overwrite' = TRUE
    /\ listing' = <<>>
    /\ queue' = <<>>
    /\ idx' = 0
    /\ pc' = "idle"
    /\ outcome' = "none"
    /\ FreshCall

Next ==
    \/ Finish
    \/ CallParseFile
    \/ CallParseFiles
    \/ CallParseFolder
    \/ Advance
    \/ BeginParse
    \/ BeginParseRaises
    \/ Invoke
    \/ InvokeRaises
    \/ ExitNonZero
    \/ ExitZero

Spec == Init /\ [][Next]_vars

TypeOK ==
    /\ op \in {"none", "parse_file", "parse_files", "parse_folder_as_one_file"}
    /\ pc \in Positions
    /\ idx \in 0..Len(queue)
    /\ tempFiles \subseteq TempNames

----------------------------------------------------------------------------
(* The files Trees are parsed from, and rakaly's grouping of duplicate keys *)

\* a file is a sequence of statements key = value; a value is a number or a block
SNumber(n) == [kind |-> "number", val |-> n, items |-> <<>>]
SBlock(stmts) == [kind |-> "block", val |-> 0, items |-> stmts]
Stmt(k, v) == [key |-> k, value |-> v]

\* the keys of a sequence of statements or entries, each once, in the order first seen
RECURSIVE FirstSeenKeys(_)
FirstSeenKeys(stmts) ==
    IF stmts = <<>> THEN <<>>
    ELSE LET front == FirstSeenKeys(SubSeq(stmts, 1, Len(stmts) - 1))
             k == stmts[Len(stmts)].key
         IN  IF k \in Range(front) THEN front ELSE Append(front, k)

\* the values the statements give to key, in the order of the statements
RECURSIVE StatementValues(_, _)
StatementValues(stmts, key) ==
    IF stmts = <<>> THEN <<>>
    ELSE (IF Head(stmts).key = key THEN <<Head(stmts).value>> ELSE <<>>)
            \o StatementValues(Tail(stmts), key)

\* rakaly json --duplicate-keys group (line 145): a block becomes an object, a key
\* that occurs once keeps its value, the values of a repeated key become one array
RECURSIVE RakalyJson(_)
RakalyJson(stmts) ==
    LET keys == FirstSeenKeys(stmts)
        Json(v) == IF v.kind = "block" THEN RakalyJson(v.items) ELSE JScalar(v.val)
        Member(key) ==
            LET vs == StatementValues(stmts, key)
            IN  IF Len(vs) = 1 THEN Json(vs[1])
                ELSE JArray([i \in DOMAIN vs |-> Json(vs[i])])
    IN  JObject([i \in DOMAIN keys |-> Entry(keys[i], Member(keys[i]))])

\* _run_rakaly, lines 145 and 149-152, of a file with these statements
ParseStatements(stmts) == ParseJson(RakalyJson(stmts))

\* the files of the Trees under study
Sources == {
    <<>>,
    <<Stmt("x", SNumber(1)), Stmt("x", SNumber(2))>>,
    <<Stmt("a", SBlock(<<Stmt("k", SNumber(1))>>)),
      Stmt("b", SBlock(<<Stmt("k", SNumber(2))>>)),
      Stmt("b", SBlock(<<Stmt("k", SNumber(3))>>))>>,
    <<Stmt("k", SBlock(<<Stmt("k", SNumber(1))>>)), Stmt("c", SNumber(0))>>,
    <<Stmt("a", SBlock(<<Stmt("x", SNumber(1))>>)),
      Stmt("a", SBlock(<<Stmt("y", SNumber(2))>>)),
      Stmt("c", SNumber(1))>>,
    <<Stmt("a", SBlock(<<Stmt("x", SNumber(1))>>)),
      Stmt("c", SNumber(1)),
      Stmt("a", SBlock(<<Stmt("x", SNumber(2)), Stmt("y", SNumber(1))>>)),
      Stmt("a", SBlock(<<Stmt("z", SNumber(3))>>))>>,
    <<Stmt("c", SNumber(0)), Stmt("e", SBlock(<<>>))>>,
    <<Stmt("a", SNumber(1)), Stmt("a", SBlock(<<Stmt("x", SNumber(1))>>))>>,
    <<Stmt("a", SBlock(<<Stmt("x", SNumber(1))>>)), Stmt("a", SNumber(2))>>,
    <<Stmt("a", SBlock(<<Stmt("x", SNumber(1)), Stmt("x", SNumber(2)), Stmt("k", SNumber(3))>>)),
      Stmt("k", SNumber(1))>>,
    <<Stmt("k", SNumber(1)), Stmt("k", SBlock(<<Stmt("k", SNumber(2))>>))>>,
    <<Stmt("a", SBlock(<<Stmt("x", SNumber(1))>>)),
      Stmt("a", SBlock(<<Stmt("y", SNumber(2))>>)),
      Stmt("b", SBlock(<<Stmt("x", SNumber(1))>>)),
      Stmt("b", SNumber(2))>>,
    <<Stmt("a", SBlock(<<Stmt("c", SBlock(<<Stmt("x", SNumber(1))>>)),
                         Stmt("c", SBlock(<<Stmt("y", SNumber(2))>>))>>)),
      Stmt("a", SBlock(<<Stmt("y", SNumber(1))>>)),
      Stmt("b", SBlock(<<Stmt("c", SBlock(<<Stmt("x", SNumber(1))>>)),
                         Stmt("c", SBlock(<<Stmt("y", SNumber(2))>>))>>))>>
}

\* the keys the Tree methods are called with
SearchKeys == {"a", "b", "c", "k", "x", "absent"}

\* the default given to get_or_default
Default == Scalar(7)

----------------------------------------------------------------------------
(* Tree *)

\* __getitem__, lines 161-162
Get(d, key) ==
    IF Contains(d, key)
    THEN [raised |-> "", out |-> <<GetItem(d, key)>>]
    ELSE [raised |-> "KeyError", out |-> <<>>]

\* a faulty variant of Length: the grouped values are counted one by one
RECURSIVE LengthOfValues(_)
LengthOfValues(d) ==
    IF d = <<>> THEN 0
    ELSE (IF IsList(Head(d).value) THEN Len(Head(d).value.items) ELSE 1)
            + LengthOfValues(Tail(d))

\* __len__, lines 164-165
Length(d) == Len(d)

\* __iter__, lines 167-173: the items of the dictionary
Items(d) == d

\* keys, lines 175-176
KeysOf(d) == [i \in DOMAIN d |-> d[i].key]

\* bool(value): 0, an empty list and a Tree of length 0 are false
Truthy(v) == IF v.kind = "scalar" THEN v.val # 0 ELSE v.items # <<>>

\* a faulty variant of GetOrDefault: dictionary.get(key) or default
GetOrDefaultIfFalse(d, key, default) ==
    IF Contains(d, key) /\ Truthy(GetItem(d, key)) THEN GetItem(d, key) ELSE default

\* get_or_default, lines 178-183
GetOrDefault(d, key, default) ==
    IF Contains(d, key) THEN GetItem(d, key) ELSE default

\* a faulty variant of FindAll: no test for the key
FindAllUnchecked(d, key) ==
    IF ~Contains(d, key) THEN [raised |-> "KeyError", out |-> <<>>]
    ELSE IF IsList(GetItem(d, key)) THEN [raised |-> "", out |-> GetItem(d, key).items]
    ELSE [raised |-> "", out |-> <<GetItem(d, key)>>]

\* a faulty variant of FindAll: a list is yielded as one value
FindAllAsStored(d, key) ==
    IF ~Contains(d, key) THEN [raised |-> "", out |-> <<>>]
    ELSE [raised |-> "", out |-> <<GetItem(d, key)>>]

\* find_all, lines 185-196, iterated to its end
FindAll(d, key) ==
    IF ~Contains(d, key) THEN [raised |-> "", out |-> <<>>]
    ELSE IF IsList(GetItem(d, key)) THEN [raised |-> "", out |-> GetItem(d, key).items]
    ELSE [raised |-> "", out |-> <<GetItem(d, key)>>]

\* a faulty variant of FindAllRecursively: the entries of a level before the nested ones
RECURSIVE FindAllLevelFirst(_, _)
FindAllLevelFirst(d, key) ==
    LET RECURSIVE Below(_)
        Below(vs) ==
            IF vs = <<>> THEN <<>>
            ELSE (IF IsTree(Head(vs)) THEN FindAllLevelFirst(Head(vs).items, key) ELSE <<>>)
                    \o Below(Tail(vs))
        RECURSIVE Nested(_)
        Nested(es) ==
            IF es = <<>> THEN <<>>
            ELSE (IF Head(es).key = key THEN <<>>
                  ELSE IF IsTree(Head(es).value) THEN FindAllLevelFirst(Head(es).value.items, key)
                  ELSE IF IsList(Head(es).value) THEN Below(Head(es).value.items)
                  ELSE <<>>) \o Nested(Tail(es))
    IN  StatementValues(d, key) \o Nested(d)

\* find_all_recursively, lines 198-208, iterated to its end
RECURSIVE FindAllRecursively(_, _)
FindAllRecursively(d, key) ==
    LET RECURSIVE InList(_)
        InList(vs) ==
            IF vs = <<>> THEN <<>>
            ELSE (IF IsTree(Head(vs)) THEN FindAllRecursively(Head(vs).items, key) ELSE <<>>)
                    \o InList(Tail(vs))
    IN  IF d = <<>> THEN <<>>
        ELSE (IF Head(d).key = key THEN <<Head(d).value>>
              ELSE IF IsTree(Head(d).value) THEN FindAllRecursively(Head(d).value.items, key)
              ELSE IF IsList(Head(d).value) THEN InList(Head(d).value.items)
              ELSE <<>>) \o FindAllRecursively(Tail(d), key)

\* lines 218-220: merged = Tree({}), then merged.dictionary.update(item.dictionary)
\* for the items in order; an item that is no Tree has no dictionary
RECURSIVE UpdateWithItems(_, _)
UpdateWithItems(merged, vs) ==
    IF vs = <<>> THEN [raised |-> "", value |-> Tree(merged)]
    ELSE IF ~IsTree(Head(vs)) THEN [raised |-> "AttributeError", value |-> Tree(merged)]
    ELSE UpdateWithItems(DictUpdate(merged, Head(vs).items), Tail(vs))

\* a faulty variant of MergedValue: the entry of the first item that has a key wins
RECURSIVE KeepFirstItems(_, _)
KeepFirstItems(merged, vs) ==
    IF vs = <<>> THEN [raised |-> "", value |-> Tree(merged)]
    ELSE IF ~IsTree(Head(vs)) THEN [raised |-> "AttributeError", value |-> Tree(merged)]
    ELSE KeepFirstItems(KeepFirstFile(merged, Head(vs).items), Tail(vs))

MergedValueFirstWins(value) == KeepFirstItems(<<>>, value.items)

\* a faulty variant of MergedValue: only the first two items are merged at a time
MergedValueInPairs(value) ==
    IF Len(value.items) <= 2 THEN UpdateWithItems(<<>>, value.items)
    ELSE LET two == UpdateWithItems(<<>>, SubSeq(value.items, 1, 2))
         IN  [raised |-> two.raised,
              value |-> List(<<two.value>> \o SubSeq(value.items, 3, Len(value.items)))]

\* lines 218-221: the Tree a list of Trees is replaced by
MergedValue(value) == UpdateWithItems(<<>>, value.items)

\* merge_duplicate_keys, lines 216-221, from the i-th item of the dictionary on;
\* value[0] of an empty list raises IndexError
RECURSIVE MergeFrom(_, _)
MergeFrom(d, i) ==
    IF i > Len(d) THEN [raised |-> "", dict |-> d]
    ELSE LET value == d[i].value
         IN  IF ~IsList(value) THEN MergeFrom(d, i + 1)
             ELSE IF value.items = <<>> THEN [raised |-> "IndexError", dict |-> d]
             ELSE IF ~IsTree(value.items[1]) THEN MergeFrom(d, i + 1)
             ELSE LET m == MergedValue(value)
                  IN  IF m.raised # "" THEN [raised |-> m.raised, dict |-> d]
                      ELSE MergeFrom(SetItem(d, d[i].key, m.value), i + 1)

\* a faulty variant of MergeDuplicateKeys: the Trees below the top level are
\* merged as well
RECURSIVE MergeDuplicateKeysRecursively(_)
MergeDuplicateKeysRecursively(d) ==
    LET m == MergeFrom(d, 1)
        Below(e) ==
            IF IsTree(e.value)
            THEN Entry(e.key, Tree(MergeDuplicateKeysRecursively(e.value.items).dict))
            ELSE e
    IN  IF m.raised # "" THEN m
        ELSE [raised |-> "", dict |-> [i \in DOMAIN m.dict |-> Below(m.dict[i])]]

\* merge_duplicate_keys, lines 210-222
MergeDuplicateKeys(d) == MergeFrom(d, 1)

----------------------------------------------------------------------------
(* The Tree methods called on a parsed Tree *)

TreeInit ==
    /\ ParserInit
    /\ NoTextStudy
    /\ source \in Sources
    /\ receiver = ParseStatements(source)
    /\ history = <<>>
    /\ arg = ""
    /\ out = <<>>
    /\ raisedT = ""

\* a method is called with key and ends with r
Called(name, key, r) ==
    /\ Len(history) < MaxCalls
    /\ history' = Append(history, name)
    /\ arg' = key
    /\ out' = r.out
    /\ raisedT' = r.raised
    /\ UNCHANGED <<source, parserVars, textVars>>

CallGet ==
    /\ \E key \in SearchKeys : Called("get", key, Get(receiver.items, key))
    /\ UNCHANGED receiver

\* a faulty variant of CallGetOrDefault: dictionary.setdefault(key, default)
CallSetDefault ==
    \E key \in SearchKeys :
        /\ Called("get_or_default", key,
                  [raised |-> "", out |-> <<GetOrDefault(receiver.items, key, Default)>>])
        /\ receiver' = IF Contains(receiver.items, key) THEN receiver
                       ELSE Tree(SetItem(receiver.items, key, Default))

CallGetOrDefault ==
    /\ \E key \in SearchKeys :
          Called("get_or_default", key,
                 [raised |-> "", out |-> <<GetOrDefault(receiver.items, key, Default)>>])
    /\ UNCHANGED receiver

CallLen ==
    /\ Called("len", "", [raised |-> "", out |-> <<Length(receiver.items)>>])
    /\ UNCHANGED receiver

CallIter ==
    /\ Called("iter", "", [raised |-> "", out |-> Items(receiver.items)])
    /\ UNCHANGED receiver

CallKeys ==
    /\ Called("keys", "", [raised |-> "", out |-> KeysOf(receiver.items)])
    /\ UNCHANGED receiver

CallFindAll ==
    /\ \E key \in SearchKeys : Called("find_all", key, FindAll(receiver.items, key))
    /\ UNCHANGED receiver

CallFindAllRecursively ==
    /\ \E key \in SearchKeys :
          Called("find_all_recursively", key,
                 [raised |-> "", out |-> FindAllRecursively(receiver.items, key)])
    /\ UNCHANGED receiver

\* merge_duplicate_keys: the receiver keeps what was merged before an exception
CallMergeDuplicateKeys ==
    LET m == MergeDuplicateKeys(receiver.items)
    IN  /\ receiver' = Tree(m.dict)
        /\ Called("merge_duplicate_keys", "",
                  [raised |-> m.raised,
                   out |-> IF m.raised = "" THEN <<Tree(m.dict)>> ELSE <<>>])

TreeNext ==
    \/ CallGet
    \/ CallGetOrDefault
    \/ CallLen
    \/ CallIter
    \/ CallKeys
    \/ CallFindAll
    \/ CallFindAllRecursively
    \/ CallMergeDuplicateKeys

TreeSpec == TreeInit /\ [][TreeNext]_vars

----------------------------------------------------------------------------
(* The workarounds applied to the text of a file *)

\* the texts of the files
Texts == SeqsUpTo({"a", "b"}, MaxTextLen)

\* an item of replacement_regexes: a pattern, which is a sequence of characters
\* that match themselves, of the groups' parentheses and of repeated character
\* classes, and the replacement of a match, which is a sequence of characters
\* and of references to groups
Pair(p, r) == [pattern |-> p, replacement |-> r]

Pairs == {Pair(<<"a">>, <<"b">>), Pair(<<"b">>, <<"a", "a">>),
          Pair(<<"a", "b">>, <<"b">>), Pair(<<"a", "a">>, <<"a">>)}

\* replacement_regexes of a workaround: items in the order of the dict, no
\* pattern twice
Workarounds ==
    {<<p>> : p \in Pairs}
        \cup {<<p, q>> : <<p, q>> \in {pq \in Pairs \X Pairs : pq[1].pattern # pq[2].pattern}}

\* the workarounds argument when it is not empty
WorkaroundLists ==
    {<<w>> : w \in Workarounds} \cup {<<w, v>> : <<w, v>> \in Workarounds \X Workarounds}

\* the pattern of UnmarkedListWorkaround without its first group
UnanchoredListWorkaround ==
    <<Pair(<<"(", "list", "\\s+", "[^#{}=\\n]+", ")">>, <<"{", " ", "\\1", " ", "}">>)>>

\* replacement_regexes of UnmarkedListWorkaround, line 41:
\* {r'(=\s*)(list\s+[^#{}=\n]+)': r'\1{ \2 }'}; the word list is one character
UnmarkedListWorkaround ==
    <<Pair(<<"(", "=", "\\s*", ")", "(", "list", "\\s+", "[^#{}=\\n]+", ")">>,
           <<"\\1", "{", " ", "\\2", " ", "}">>)>>

\* the repeated character classes of the patterns
Repeated == {"\\s*", "\\s+", "[^#{}=\\n]+"}

InClass(atom, c) ==
    IF atom = "[^#{}=\\n]+" THEN c \notin {"#", "{", "}", "=", "\n"}
    ELSE c \in {" ", "\n"}

AtLeast(atom) == IF atom = "\\s*" THEN 0 ELSE 1

NoMatch == [ok |-> FALSE, end |-> 0, marks |-> <<>>]

\* the match of the rest of a pattern from position i of the text, as re finds
\* it: a repeated class takes as many characters as it can and gives them back
\* one by one while the rest of the pattern does not match; marks are the
\* positions of the parentheses passed
RECURSIVE MatchFrom(_, _, _, _)
MatchFrom(pattern, text, i, marks) ==
    IF pattern = <<>> THEN [ok |-> TRUE, end |-> i, marks |-> marks]
    ELSE LET atom == Head(pattern)
             run == CHOOSE n \in 0 .. Len(text) :
                        /\ \A k \in i .. i + n - 1 : k <= Len(text) /\ InClass(atom, text[k])
                        /\ i + n <= Len(text) => ~InClass(atom, text[i + n])
                        /\ i + n <= Len(text) + 1
             RECURSIVE Try(_)
             Try(n) ==
                 IF n < AtLeast(atom) THEN NoMatch
                 ELSE LET m == MatchFrom(Tail(pattern), text, i + n, marks)
                      IN  IF m.ok THEN m ELSE Try(n - 1)
         IN  IF atom \in {"(", ")"} THEN MatchFrom(Tail(pattern), text, i, Append(marks, i))
             ELSE IF atom \in Repeated THEN Try(run)
             ELSE IF i <= Len(text) /\ text[i] = atom
                  THEN MatchFrom(Tail(pattern), text, i + 1, marks)
                  ELSE NoMatch

\* match.expand(replacement): a reference to a group becomes the text of the group
RECURSIVE Expand(_, _, _)
Expand(replacement, text, marks) ==
    IF replacement = <<>> THEN <<>>
    ELSE LET c == Head(replacement)
             Group(g) == SubSeq(text, marks[2 * g - 1], marks[2 * g] - 1)
         IN  (IF c = "\\1" THEN Group(1) ELSE IF c = "\\2" THEN Group(2) ELSE <<c>>)
                \o Expand(Tail(replacement), text, marks)

\* a faulty variant of ReSub: re.sub with count=1
ReSubFirst(pattern, replacement, text) ==
    LET RECURSIVE Scan(_)
        Scan(t) ==
            IF t = <<>> THEN <<>>
            ELSE LET m == MatchFrom(pattern, t, 1, <<>>)
                 IN  IF m.ok
                     THEN Expand(replacement, t, m.marks) \o SubSeq(t, m.end, Len(t))
                     ELSE <<Head(t)>> \o Scan(Tail(t))
    IN  Scan(text)

\* re.sub(pattern, replacement, text), line 31: the matches are found from left
\* to right, a match starts where the one before it ended
ReSub(pattern, replacement, text) ==
    LET RECURSIVE Scan(_)
        Scan(t) ==
            IF t = <<>> THEN <<>>
            ELSE LET m == MatchFrom(pattern, t, 1, <<>>)
                 IN  IF m.ok
                     THEN Expand(replacement, t, m.marks) \o Scan(SubSeq(t, m.end, Len(t)))
                     ELSE <<Head(t)>> \o Scan(Tail(t))
    IN  Scan(text)

\* apply_to_string, lines 29-32
RECURSIVE ApplyToString(_, _)
ApplyToString(regexes, file_contents) ==
    IF regexes = <<>> THEN file_contents
    ELSE ApplyToString(Tail(regexes),
                       ReSub(Head(regexes).pattern, Head(regexes).replacement, file_contents))

TextInit ==
    /\ ParserInit
    /\ NoTreeStudy
    /\ fileText \in Texts
    /\ wlist \in WorkaroundLists
    /\ contents = <<>>
    /\ wpos = 0
    /\ rewriting = "entered"

\* lines 130-131: contents = fp.read()
ReadContents ==
    /\ rewriting = "entered"
    /\ contents' = fileText
    /\ rewriting' = "applying"
    /\ UNCHANGED <<fileText, wlist, wpos, parserVars, treeVars>>

\* lines 132-133: one turn of the loop over the workarounds
ApplyWorkaround ==
    /\ rewriting = "applying"
    /\ wpos < Len(wlist)
    /\ contents' = ApplyToString(wlist[wpos + 1], contents)
    /\ wpos' = wpos + 1
    /\ UNCHANGED <<fileText, wlist, rewriting, parserVars, treeVars>>

\* lines 134-138: contents is written to the temporary file that rakaly is given
WriteTemp ==
    /\ rewriting = "applying"
    /\ wpos = Len(wlist)
    /\ rewriting' = "written"
    /\ UNCHANGED <<fileText, wlist, contents, wpos, parserVars, treeVars>>

TextNext ==
    \/ ReadContents
    \/ ApplyWorkaround
    \/ WriteTemp

TextSpec == TextInit /\ [][TextNext]_vars

\* the pieces of the files with list statements
Pieces == {<<"=">>, <<" ">>, <<"\n">>, <<"x">>, <<"{">>, <<"list">>,
           <<"=", "list", " ", "x">>}

RECURSIVE Joined(_)
Joined(pieces) == IF pieces = <<>> THEN <<>> ELSE Head(pieces) \o Joined(Tail(pieces))

ListTexts == {Joined(pieces) : pieces \in SeqsUpTo(Pieces, MaxPieces)}

\* a workaround is passed once or twice: UnmarkedListWorkaround for a file with
\* list statements, another workaround for another file
ReapplyInit ==
    /\ ParserInit
    /\ NoTreeStudy
    /\ \/ /\ fileText \in ListTexts
          /\ wlist \in {<<UnmarkedListWorkaround>>,
                        <<UnmarkedListWorkaround, UnmarkedListWorkaround>>}
       \/ /\ fileText \in Texts
          /\ wlist \in {<<w, w>> : w \in Workarounds}
    /\ contents = <<>>
    /\ wpos = 0
    /\ rewriting = "entered"

ReapplySpec == ReapplyInit /\ [][TextNext]_vars

----------------------------------------------------------------------------
(* Properties *)

IsFolder == op = "parse_folder_as_one_file"

\* the one ascending enumeration of a set of paths
RECURSIVE Ascending(_)
Ascending(S) ==
    IF S = {} THEN <<>>
    ELSE LET least == CHOOSE p \in S : \A q \in S \ {p} : PathLess(p, q)
         IN  <<least>> \o Ascending(S \ {least})

Prefix(s, n) == SubSeq(s, 1, n)

\* the values the per-file Trees bind key to, in the order of the files
RECURSIVE BoundValues(_, _)
BoundValues(key, trees) ==
    IF trees = <<>> THEN <<>>
    ELSE (IF Contains(Head(trees).items, key)
          THEN <<GetItem(Head(trees).items, key)>> ELSE <<>>) \o BoundValues(key, Tail(trees))

\* a step of parse_folder_as_one_file that folds one more file (its Tree is returned')
FoldsAFile == IsFolder /\ Len(parsed') = Len(parsed) + 1

\* C1: with a non-empty workaround list, once a call (or an advance of the
\* parse_files generator) has ended, by a Tree, by the parse error or by any
\* other exception, no temporary file exists.
C1_TempFileRemoved == (workarounds /\ Ended) => tempFiles = {}

\* a call with workarounds ended by the parse error after its temporary file was created
C1_Witness ==
    /\ workarounds
    /\ pc = "raised"
    /\ outcome = "Exception"
    /\ invoked # <<>>

\* C2: when rakaly exits non-zero, the error carries the path of the game
\* file the caller asked to parse, with and without workarounds.
C2_ErrorNamesGameFile ==
    (pc = "raised" /\ outcome = "Exception") => error.path = queue[idx]

\* a text without one final newline
WithoutFinalNewline(s) ==
    IF s # <<>> /\ s[Len(s)] = "\n" THEN SubSeq(s, 1, Len(s) - 1) ELSE s

\* C3: the diagnostic of the parse error is rakaly's standard-error text
\* without its final newline; no other character of the text is removed.
C3_DiagnosticKeepsText ==
    (pc = "raised" /\ outcome = "Exception") => error.diagnostic = WithoutFinalNewline(stderr)

\* C4: parse_files and parse_folder_as_one_file run over the matching files in
\* ascending order of their paths, whatever the order the glob enumerated them
\* in, and rakaly is run for them in that order.
C4_SortedOrder ==
    op \in {"parse_files", "parse_folder_as_one_file"} =>
        /\ queue = Ascending(Range(listing))
        /\ invoked = Prefix(queue, Len(invoked))

\* a folder of three files, enumerated in another order than the sorted one, all parsed
C4_Witness ==
    /\ IsFolder
    /\ pc = "returned"
    /\ Len(listing) = 3
    /\ listing # queue
    /\ invoked = queue

\* C5: after the consumer has advanced the generator of parse_files n times,
\* rakaly has been run for exactly the first n files in sorted order; at no
\* time has it been run for more files than the consumer has asked for.
C5_OnDemand ==
    op = "parse_files" =>
        /\ Len(invoked) <= advances
        /\ invoked = Prefix(queue, Len(invoked))
        /\ pc \in {"created", "suspended"} =>
              /\ advances <= Len(queue)
              /\ invoked = Prefix(queue, advances)
              /\ yielded = invoked

\* two of three files asked for and parsed, the third not
C5_Witness ==
    /\ op = "parse_files"
    /\ pc = "suspended"
    /\ advances = 2
    /\ Len(queue) = 3
    /\ Len(invoked) = 2

C6_RaisedAtKth ==
    op = "parse_files" =>
        /\ yielded = Prefix(queue, Len(yielded))
        /\ pc = "raised" =>
              /\ advances = idx
              /\ yielded = Prefix(queue, idx - 1)
              /\ Len(invoked) <= idx

C6_NothingAfterFailure ==
    (op = "parse_files" /\ pc \in {"raised", "exhausted"} /\ op' = "parse_files") =>
        /\ pc' = "exhausted"
        /\ outcome' = "StopIteration"
        /\ invoked' = invoked
        /\ yielded' = yielded

\* C6: in parse_files, when parsing the k-th file fails the error reaches the
\* consumer at the k-th advance, exactly the pairs of files 1..k-1 have been
\* yielded, and a generator that has raised or finished parses and yields
\* nothing more, however often the consumer advances it again.
C6_FailureHalts == []C6_RaisedAtKth /\ [][C6_NothingAfterFailure]_vars

\* the second of three files failed, and the consumer advanced once more
C6_Witness ==
    /\ op = "parse_files"
    /\ pc = "exhausted"
    /\ Len(queue) = 3
    /\ idx = 2
    /\ Len(yielded) = 1
    /\ advances = 3

\* the last of the per-file Trees that has key
LastFileWith(key) ==
    CHOOSE i \in DOMAIN parsed :
        /\ Contains(parsed[i].items, key)
        /\ \A j \in DOMAIN parsed : j > i => ~Contains(parsed[j].items, key)

\* C7: with overwrite_duplicate_toplevel_keys=true the merged Tree has the
\* top-level keys of the files and binds each to the value, taken whole, of the
\* last file in sorted order that has the key.
C7_LastFileWins ==
    (IsFolder /\ overwrite) =>
        /\ DictKeys(result.items) = UNION {DictKeys(parsed[i].items) : i \in DOMAIN parsed}
        /\ \A key \in DictKeys(result.items) :
              GetItem(result.items, key) = GetItem(parsed[LastFileWith(key)].items, key)

\* file1 {a: {x: 1}}, file2 {a: {y: 2}} gives a = {y: 2}
C7_Witness ==
    /\ IsFolder /\ overwrite /\ pc = "returned"
    /\ parsed = <<Tree(<<Entry("a", Tree(<<Entry("x", Scalar(1))>>))>>),
                  Tree(<<Entry("a", Tree(<<Entry("y", Scalar(2))>>))>>)>>
    /\ result = Tree(<<Entry("a", Tree(<<Entry("y", Scalar(2))>>))>>)

\* merged is old with the pairs of new applied one level deep
AppliedOneLevel(old, new, merged) ==
    /\ IsTree(merged)
    /\ DictKeys(merged.items) = DictKeys(old.items) \cup DictKeys(new.items)
    /\ Len(merged.items) = Cardinality(DictKeys(merged.items))
    /\ \A k \in DictKeys(new.items) : GetItem(merged.items, k) = GetItem(new.items, k)
    /\ \A k \in DictKeys(old.items) \ DictKeys(new.items) :
          GetItem(merged.items, k) = GetItem(old.items, k)

C8_Step ==
    (FoldsAFile /\ ~overwrite) =>
        \A key \in DictKeys(returned'.items) \cap DictKeys(result.items) :
            (IsTree(GetItem(result.items, key)) /\ IsTree(GetItem(returned'.items, key))) =>
                AppliedOneLevel(GetItem(result.items, key), GetItem(returned'.items, key),
                                GetItem(result'.items, key))

\* C8: with overwrite_duplicate_toplevel_keys=false, a Tree meeting a later
\* file's Tree for the same top-level key becomes the earlier Tree with the
\* later Tree's pairs applied one level deep: earlier-only keys kept, the later
\* Tree's keys bound to the later values, a nested Tree replaced, not merged.
C8_ShallowMerge == [][C8_Step]_vars

\* file1 {a: {x: 1}}, file2 {a: {y: 2}} gives a = {x: 1, y: 2}
C8_Witness ==
    /\ IsFolder /\ ~overwrite /\ pc = "returned"
    /\ parsed = <<Tree(<<Entry("a", Tree(<<Entry("x", Scalar(1))>>))>>),
                  Tree(<<Entry("a", Tree(<<Entry("y", Scalar(2))>>))>>)>>
    /\ result = Tree(<<Entry("a", Tree(<<Entry("x", Scalar(1)), Entry("y", Scalar(2))>>))>>)

C9_Step ==
    (FoldsAFile /\ ~overwrite) =>
        \A key \in DictKeys(returned'.items) \cap DictKeys(result.items) :
            IsList(GetItem(result.items, key)) =>
                LET old == GetItem(result.items, key).items
                    new == GetItem(result'.items, key)
                IN  /\ IsList(new)
                    /\ Len(new.items) = Len(old) + 1
                    /\ Prefix(new.items, Len(old)) = old
                    /\ new.items[Len(old) + 1] = GetItem(returned'.items, key)

\* C9: with overwrite_duplicate_toplevel_keys=false, a later file's value for
\* a top-level key whose value is a list becomes the one new last element of
\* that list, whatever its kind; the earlier elements stay as they were.
C9_AppendToList == [][C9_Step]_vars

\* file1 {a: [1, 2]}, file2 {a: [1, 2]} gives a = [1, 2, [1, 2]]
C9_Witness ==
    /\ IsFolder /\ ~overwrite
    /\ Contains(result.items, "a")
    /\ GetItem(result.items, "a") =
          List(<<Scalar(1), Scalar(2), List(<<Scalar(1), Scalar(2)>>)>>)

C10_Step ==
    (FoldsAFile /\ ~overwrite) =>
        \A key \in DictKeys(returned'.items) \cap DictKeys(result.items) :
            (~IsTree(GetItem(result.items, key)) /\ ~IsList(GetItem(result.items, key))) =>
                GetItem(result'.items, key) =
                    List(<<GetItem(result.items, key), GetItem(returned'.items, key)>>)

C10_State ==
    (IsFolder /\ ~overwrite) =>
        \A key \in DictKeys(result.items) :
            LET values == BoundValues(key, parsed)
            IN  (Len(values) >= 2 /\ \A i \in DOMAIN values : values[i].kind = "scalar") =>
                    GetItem(result.items, key) = List(values)

\* C10: with overwrite_duplicate_toplevel_keys=false, a later file's value
\* for a top-level key whose value is neither a Tree nor a list turns the slot
\* into the list [old value, new value]; a key bound to a scalar in n >= 2
\* files ends as the list of those n values in the order of the files.
C10_ScalarsToList == []C10_State /\ [][C10_Step]_vars

\* three files binding a to 1, 2, 1 give a = [1, 2, 1]
C10_Witness ==
    /\ IsFolder /\ ~overwrite /\ pc = "returned"
    /\ Len(parsed) = 3
    /\ Contains(result.items, "a")
    /\ GetItem(result.items, "a") = List(<<Scalar(1), Scalar(2), Scalar(1)>>)

\* the entries of the per-file Trees, one file after the other
RECURSIVE AllEntries(_)
AllEntries(trees) ==
    IF trees = <<>> THEN <<>> ELSE Head(trees).items \o AllEntries(Tail(trees))

\* no top-level key occurs in two of the per-file Trees
DisjointKeys(trees) ==
    \A i, j \in DOMAIN trees :
        i # j => DictKeys(trees[i].items) \cap DictKeys(trees[j].items) = {}

\* C11: under either policy, a top-level key that occurs in exactly one of
\* the parsed files is bound in the merged Tree to that file's value; when no
\* key occurs in two files the merged Tree is the files' pairs one after the
\* other, the same Tree under both policies.
C11_SingleFileKeysPassThrough ==
    IsFolder =>
        /\ \A key \in UNION {DictKeys(parsed[i].items) : i \in DOMAIN parsed} :
              Len(BoundValues(key, parsed)) = 1 =>
                  /\ Contains(result.items, key)
                  /\ GetItem(result.items, key) = BoundValues(key, parsed)[1]
        /\ DisjointKeys(parsed) => result = Tree(AllEntries(parsed))

\* merge policy, files {b: 2, a: 2} and {a: 1}: a collides, b passes through
C11_Witness ==
    /\ IsFolder /\ ~overwrite /\ pc = "returned"
    /\ parsed = <<Tree(<<Entry("b", Scalar(2)), Entry("a", Scalar(2))>>),
                  Tree(<<Entry("a", Scalar(1))>>)>>
    /\ GetItem(result.items, "b") = Scalar(2)

----------------------------------------------------------------------------
(* Properties of Tree *)

\* the method called last, "none" before the first call
Method == IF history = <<>> THEN "none" ELSE history[Len(history)]

\* the blocks of a file: the file itself and every block nested in it
RECURSIVE Blocks(_)
Blocks(stmts) ==
    {stmts} \cup UNION {IF stmts[i].value.kind = "block" THEN Blocks(stmts[i].value.items) ELSE {}
                            : i \in DOMAIN stmts}

\* the Tree value of a statement's value
ValueOf(v) == IF v.kind = "block" THEN ParseStatements(v.items) ELSE Scalar(v.val)

\* C12: find_all with a key that is not a top-level key of the receiver yields
\* nothing and raises nothing.
C12_FindAllAbsentKey ==
    (Method = "find_all" /\ ~Contains(receiver.items, arg)) =>
        /\ out = <<>>
        /\ raisedT = ""

C12_Witness ==
    /\ Method = "find_all"
    /\ arg = "absent"
    /\ Len(receiver.items) = 2
    /\ out = <<>>

\* C13: in every block of a file, a key that several sibling statements bind is
\* stored as the list of their values in the order of the statements: get returns
\* that list, and find_all yields its elements one by one in that order. find_all
\* with a key whose stored value is not a list yields that one value.
C13_DuplicateKeys ==
    /\ \A block \in Blocks(source) : \A key \in Range(KeysOf(block)) :
          LET values == StatementValues(block, key)
              expected == [i \in DOMAIN values |-> ValueOf(values[i])]
              d == ParseStatements(block).items
          IN  Len(values) > 1 =>
                  /\ Get(d, key) = [raised |-> "", out |-> <<List(expected)>>]
                  /\ FindAll(d, key) = [raised |-> "", out |-> expected]
    /\ (Method = "find_all" /\ Contains(receiver.items, arg)) =>
          LET stored == GetItem(receiver.items, arg)
          IN  /\ raisedT = ""
              /\ out = IF IsList(stored) THEN stored.items ELSE <<stored>>
    /\ (Method = "get" /\ Contains(receiver.items, arg)) =>
          /\ raisedT = ""
          /\ out = <<GetItem(receiver.items, arg)>>

C13_Witness ==
    /\ Method = "find_all"
    /\ arg = "a"
    /\ Len(StatementValues(source, "a")) = 3
    /\ Len(out) = 3
    /\ out[2] = Tree(<<Entry("x", Scalar(2)), Entry("y", Scalar(1))>>)

\* the values bound to key in a Tree or in any Tree reachable from it through
\* nested Trees and lists of Trees
RECURSIVE BoundAnywhere(_, _)
BoundAnywhere(v, key) ==
    IF IsTree(v)
    THEN UNION {(IF v.items[i].key = key THEN {v.items[i].value} ELSE {})
                    \cup BoundAnywhere(v.items[i].value, key) : i \in DOMAIN v.items}
    ELSE IF IsList(v)
    THEN UNION {IF IsTree(v.items[i]) THEN BoundAnywhere(v.items[i], key) ELSE {}
                    : i \in DOMAIN v.items}
    ELSE {}

\* C14: find_all_recursively yields every value bound to the key at any depth of
\* the receiver, the bindings inside a value that is itself bound to the key
\* included.
C14_EveryBindingYielded ==
    Method = "find_all_recursively" =>
        \A v \in BoundAnywhere(receiver, arg) : v \in Range(out)

\* the entries find_all_recursively visits, named by their positions: the position
\* of an entry in its Tree, and before that the positions that lead to the Tree,
\* through the value of an entry with another key (one position) or through an
\* item of the list of such an entry (two positions)
RECURSIVE Visits(_, _, _)
Visits(d, path, key) ==
    /\ path # <<>>
    /\ path[1] \in DOMAIN d
    /\ LET e == d[path[1]]
           rest == Tail(path)
       IN  IF rest = <<>> THEN TRUE
           ELSE /\ e.key # key
                /\ IF IsTree(e.value) THEN Visits(e.value.items, rest, key)
                   ELSE /\ IsList(e.value)
                        /\ rest[1] \in DOMAIN e.value.items
                        /\ IsTree(e.value.items[rest[1]])
                        /\ Visits(e.value.items[rest[1]].items, Tail(rest), key)

\* the entry at a visited position
RECURSIVE EntryAt(_, _)
EntryAt(d, path) ==
    LET e == d[path[1]]
        rest == Tail(path)
    IN  IF rest = <<>> THEN e
        ELSE IF IsTree(e.value) THEN EntryAt(e.value.items, rest)
        ELSE EntryAt(e.value.items[rest[1]].items, Tail(rest))

\* the visited positions of the entries whose key is key
MatchesOf(d, key) ==
    {path \in SeqsUpTo(1 .. 3, 5) : Visits(d, path, key) /\ EntryAt(d, path).key = key}

\* C15: find_all_recursively yields in pre-order: the values of the matching
\* entries it visits, in the lexicographic order of their positions, so that the
\* entries of a Tree come in insertion order and a nested Tree or list of Trees is
\* finished before the next sibling; {a: {k: 1}, b: [{k: 2}, {k: 3}]} yields
\* 1, 2, 3. The sequence is finite and every call yields it anew.
C15_PreOrder ==
    /\ Method = "find_all_recursively" =>
          LET matches == MatchesOf(receiver.items, arg)
              ordered == Ascending(matches)
          IN  /\ raisedT = ""
              /\ Len(out) = Cardinality(matches)
              /\ out = [i \in DOMAIN ordered |-> EntryAt(receiver.items, ordered[i]).value]
    /\ source = <<Stmt("a", SBlock(<<Stmt("k", SNumber(1))>>)),
                  Stmt("b", SBlock(<<Stmt("k", SNumber(2))>>)),
                  Stmt("b", SBlock(<<Stmt("k", SNumber(3))>>))>>
          => FindAllRecursively(ParseStatements(source).items, "k")
                = <<Scalar(1), Scalar(2), Scalar(3)>>

C15_Witness ==
    /\ history = <<"find_all_recursively", "find_all_recursively">>
    /\ arg = "k"
    /\ receiver = Tree(<<Entry("a", Tree(<<Entry("k", Scalar(1))>>)),
                         Entry("b", List(<<Tree(<<Entry("k", Scalar(2))>>),
                                           Tree(<<Entry("k", Scalar(3))>>)>>))>>)
    /\ out = <<Scalar(1), Scalar(2), Scalar(3)>>

\* a step in which merge_duplicate_keys is called and raises nothing
MergeStep ==
    /\ history' = Append(history, "merge_duplicate_keys")
    /\ raisedT' = ""

\* a list that is not empty and holds Trees only
IsListOfTrees(v) ==
    /\ IsList(v)
    /\ v.items # <<>>
    /\ \A i \in DOMAIN v.items : IsTree(v.items[i])

\* the last of the Trees that has key
LastTreeWith(trees, key) ==
    trees[CHOOSE i \in DOMAIN trees :
              /\ Contains(trees[i].items, key)
              /\ \A j \in DOMAIN trees : Contains(trees[j].items, key) => j <= i]

\* merged is the Trees applied onto an empty Tree in list order: it has the keys
\* of all of them, in the order first seen, each with the value of the last Tree
\* that has it
AppliedInListOrder(trees, merged) ==
    /\ IsTree(merged)
    /\ KeysOf(merged.items) = FirstSeenKeys(AllEntries(trees))
    /\ \A key \in DictKeys(merged.items) :
          GetItem(merged.items, key) = GetItem(LastTreeWith(trees, key).items, key)

\* C16: merge_duplicate_keys replaces the value of every top-level key that is a
\* list of Trees by one Tree, the Trees of the list applied onto an empty Tree in
\* list order, so that the later Tree wins a key; the other entries and the order
\* of the keys stay; the receiver itself is changed and is what the call returns.
C16_Step ==
    MergeStep =>
        /\ KeysOf(receiver'.items) = KeysOf(receiver.items)
        /\ \A i \in DOMAIN receiver.items :
              IF IsListOfTrees(receiver.items[i].value)
              THEN AppliedInListOrder(receiver.items[i].value.items, receiver'.items[i].value)
              ELSE receiver'.items[i].value = receiver.items[i].value
        /\ out' = <<receiver'>>

C16_MergeDuplicateKeys == [][C16_Step]_vars

C16_Witness ==
    /\ history = <<"merge_duplicate_keys">>
    /\ raisedT = ""
    /\ Len(StatementValues(source, "a")) = 3
    /\ receiver = Tree(<<Entry("a", Tree(<<Entry("x", Scalar(2)), Entry("y", Scalar(1)),
                                           Entry("z", Scalar(3))>>)),
                         Entry("c", Scalar(1))>>)
    /\ out = <<receiver>>

\* C17: merge_duplicate_keys called again right after a call of it that raised
\* nothing raises nothing and leaves the Tree as the first call left it, whether
\* the grouped Trees had colliding keys or not.
C17_Step ==
    (/\ Method = "merge_duplicate_keys"
     /\ raisedT = ""
     /\ history' = Append(history, "merge_duplicate_keys"))
        => /\ raisedT' = ""
           /\ receiver' = receiver
           /\ out' = out

C17_Idempotent == [][C17_Step]_vars

C17_Witness ==
    /\ history = <<"merge_duplicate_keys", "merge_duplicate_keys">>
    /\ raisedT = ""
    /\ Len(StatementValues(source, "a")) = 2
    /\ IsTree(ValueOf(StatementValues(source, "a")[1]))
    /\ IsTree(ValueOf(StatementValues(source, "a")[2]))
    /\ DisjointKeys(<<ValueOf(StatementValues(source, "a")[1]),
                      ValueOf(StatementValues(source, "a")[2])>>)
    /\ receiver = Tree(<<Entry("a", Tree(<<Entry("x", Scalar(1)), Entry("y", Scalar(2))>>)),
                         Entry("c", Scalar(1))>>)

\* C18: get returns the stored value of a key that is present and raises KeyError
\* for a key that is absent; get_or_default returns the stored value of a key that
\* is present, also when that value is 0 or an empty Tree, returns the default
\* when the key is absent, and never raises.
C18_GetAndGetOrDefault ==
    /\ Method = "get" =>
          IF Contains(receiver.items, arg)
          THEN raisedT = "" /\ out = <<GetItem(receiver.items, arg)>>
          ELSE raisedT = "KeyError" /\ out = <<>>
    /\ Method = "get_or_default" =>
          /\ raisedT = ""
          /\ Len(out) = 1
          /\ Contains(receiver.items, arg) => out[1] = GetItem(receiver.items, arg)
          /\ ~Contains(receiver.items, arg) => out[1] = Default
          /\ Default \notin {receiver.items[i].value : i \in DOMAIN receiver.items}
                => (out[1] = Default <=> ~Contains(receiver.items, arg))

C18_Witness ==
    /\ Method = "get_or_default"
    /\ arg = "c"
    /\ Contains(receiver.items, "c")
    /\ ~Truthy(GetItem(receiver.items, "c"))
    /\ out = <<Scalar(0)>>

\* C19: iterating a Tree yields one pair of key and value per top-level key, each
\* key once, in insertion order, which is the order in which the keys first occur
\* in the file; the value is the one stored for the key; the length of the Tree
\* is the number of pairs.
C19_Iteration ==
    /\ Method = "iter" =>
          /\ raisedT = ""
          /\ KeysOf(out) = FirstSeenKeys(source)
          /\ \A i, j \in DOMAIN out : out[i].key = out[j].key => i = j
          /\ \A i \in DOMAIN out : out[i].value = GetItem(receiver.items, out[i].key)
          /\ Length(receiver.items) = Len(out)
    /\ Method = "len" => out = <<Cardinality(DictKeys(receiver.items))>>
    /\ Method = "keys" => out = FirstSeenKeys(source)

C19_Witness ==
    /\ Method = "iter"
    /\ Len(source) = 4
    /\ Len(out) = 2
    /\ out[1].key = "a"
    /\ IsList(out[1].value)
    /\ out[2].key = "c"

----------------------------------------------------------------------------
(* Properties of the workarounds *)

\* the pattern matches the text at position i
MatchesAt(pattern, text, i) ==
    /\ i + Len(pattern) - 1 <= Len(text)
    /\ SubSeq(text, i, i + Len(pattern) - 1) = pattern

Occurs(pattern, text) == \E i \in DOMAIN text : MatchesAt(pattern, text, i)

\* where the matches that are replaced start: matches that do not overlap, and
\* every other match overlaps one of them that starts before it
ReplacedAt(pattern, text) ==
    CHOOSE S \in SUBSET DOMAIN text :
        /\ \A i \in S : MatchesAt(pattern, text, i)
        /\ \A i, j \in S : i < j => i + Len(pattern) <= j
        /\ \A j \in DOMAIN text :
              (MatchesAt(pattern, text, j) /\ j \notin S)
                  => \E i \in S : i < j /\ j < i + Len(pattern)

RECURSIVE Concat(_)
Concat(pieces) == IF pieces = <<>> THEN <<>> ELSE Head(pieces) \o Concat(Tail(pieces))

\* the text with every match replaced
EveryMatchReplaced(pair, text) ==
    LET S == ReplacedAt(pair.pattern, text)
        Piece(k) ==
            IF k \in S THEN pair.replacement
            ELSE IF \E i \in S : i < k /\ k < i + Len(pair.pattern) THEN <<>>
            ELSE <<text[k]>>
    IN  Concat([k \in DOMAIN text |-> Piece(k)])

\* the pairs one after another, each on the text the one before it left
RECURSIVE OneAfterAnother(_, _)
OneAfterAnother(pairs, text) ==
    IF pairs = <<>> THEN text
    ELSE OneAfterAnother(Tail(pairs), EveryMatchReplaced(Head(pairs), text))

C20_State ==
    /\ rewriting \in {"applying", "written"} =>
          contents = OneAfterAnother(Concat(SubSeq(wlist, 1, wpos)), fileText)
    /\ rewriting = "written" => wpos = Len(wlist)

C20_Step ==
    (/\ wpos' = wpos + 1
     /\ \A i \in DOMAIN wlist[wpos'] : ~Occurs(wlist[wpos'][i].pattern, contents))
        => /\ contents' = contents
           /\ rewriting' = "applying"

\* C20: a workaround substitutes its pairs one after another in the order they
\* are listed, each pair replacing every match in the text it is given, which is
\* the text the pairs before it left; the text written for rakaly is the file's
\* text after all workarounds in list order; a workaround none of whose patterns
\* occurs leaves the text as it is and the loop goes on.
C20_WorkaroundsInOrder == []C20_State /\ [][C20_Step]_vars

C20_Witness ==
    /\ rewriting = "written"
    /\ fileText = <<"a", "a">>
    /\ wlist = <<<<Pair(<<"a">>, <<"b">>), Pair(<<"b">>, <<"a", "a">>)>>,
                 <<Pair(<<"a", "a">>, <<"a">>)>>>>
    /\ contents = <<"a", "a">>

\* C21 as stated: whatever the workaround, applying it again right after it was
\* applied changes nothing.
C21_EveryWorkaroundIdempotent ==
    [][(/\ wpos >= 1
        /\ wpos' = wpos + 1
        /\ wlist[wpos'] = wlist[wpos]) => contents' = contents]_vars

C21_State ==
    (wpos >= 1 /\ wlist[wpos] = UnmarkedListWorkaround)
        => ApplyToString(UnmarkedListWorkaround, contents) = contents

C21_Step ==
    (/\ wpos >= 1
     /\ wpos' = wpos + 1
     /\ wlist[wpos] = UnmarkedListWorkaround
     /\ wlist[wpos'] = UnmarkedListWorkaround) => contents' = contents

\* C21: UnmarkedListWorkaround is idempotent: applied to a text it has rewritten
\* it changes nothing.
C21_UnmarkedListIdempotent == []C21_State /\ [][C21_Step]_vars

C21_Witness ==
    /\ wpos = 2
    /\ wlist = <<UnmarkedListWorkaround, UnmarkedListWorkaround>>
    /\ fileText = <<"=", "list", " ", "x", "=", "list", " ", "x">>
    /\ contents = <<"=", "{", " ", "list", " ", "x", " ", "}",
                    "=", "{", " ", "list", " ", "x", " ", "}">>

----------------------------------------------------------------------------
(* Properties of a parse call as a whole *)

\* the file at position i of the call has been given to rakaly this many times
TimesInvoked(i) == Cardinality({j \in DOMAIN invoked : invoked[j] = queue[i]})

C22_State ==
    /\ pc \in {"enter", "direct", "rewrite_pending"} =>
          /\ idx \in DOMAIN queue
          /\ TimesInvoked(idx) = 0
          /\ Len(invoked) = idx - 1
    /\ pc = "direct" => ~workarounds
    /\ pc = "rewrite_pending" => workarounds
    /\ pc = "invoked" => TimesInvoked(idx) = 1 /\ Len(invoked) = idx
    /\ (pc \in {"returned", "suspended"} /\ queue # <<>>) =>
          /\ outcome = "Tree"
          /\ IsTree(returned)
          /\ error = NoError
          /\ \A i \in 1 .. idx : TimesInvoked(i) = 1
          /\ Len(invoked) = idx
    /\ (pc = "raised" /\ outcome = "Exception") =>
          /\ returned = NoTree
          /\ error # NoError
          /\ \A i \in 1 .. idx : TimesInvoked(i) = 1
          /\ Len(invoked) = idx

C22_Step ==
    /\ pc = "idle" => pc' \in {"enter", "created", "returned"}
    /\ pc = "enter" => pc' \in {"direct", "rewrite_pending", "raised"}
    /\ pc \in {"direct", "rewrite_pending"} => pc' \in {"invoked", "raised"}
    /\ pc = "invoked" => pc' \in {"enter", "returned", "suspended", "raised"}
    /\ (pc = "invoked" /\ pc' = "raised" /\ outcome' = "Exception") => stderr' \in StderrTexts
    /\ (pc \in {"enter", "direct", "rewrite_pending"} /\ pc' = "raised") => outcome' = "OSError"
    /\ pc = "raised" => /\ pc' \in {"idle", "exhausted"}
                        /\ invoked' \in {invoked, <<>>}
                        /\ returned' = NoTree
    /\ pc' = "invoked" => invoked' = Append(invoked, queue[idx])
    /\ pc' # "invoked" => invoked' \in {invoked, <<>>}

\* C22: the parse of one file goes from the entry through the direct path or
\* the rewritten copy to one run of rakaly and from there to a Tree (exit code 0)
\* or to the parse error (another exit code), and the call goes back to idle
\* from its end; a file is given to rakaly once in a call, a file that rakaly
\* rejected is not given to it again, and the call that raised the parse error
\* has no Tree. A filesystem error can end the call before rakaly is run.
C22_OneRunPerFile == []C22_State /\ [][C22_Step]_vars

C22_Witness ==
    /\ op = "parse_files"
    /\ pc = "raised"
    /\ outcome = "Exception"
    /\ workarounds
    /\ Len(invoked) = 2
    /\ Len(yielded) = 1

\* C23: parse_folder_as_one_file has no partial result: when a file of the folder
\* fails, under either policy, the call raises, no Tree and nothing of what was
\* merged is left, and no file after the failing one is given to rakaly; a call
\* that returns has parsed every file of the folder.
C23_State ==
    /\ (IsFolder /\ pc = "raised") =>
          /\ outcome \in {"Exception", "OSError", "TypeError", "ValueError"}
          /\ returned = NoTree
          /\ result = Tree(<<>>)
          /\ parsed = <<>>
          /\ Len(invoked) <= idx
          /\ invoked = Prefix(queue, Len(invoked))
    /\ (IsFolder /\ pc = "returned") =>
          /\ outcome = "Tree"
          /\ error = NoError
          /\ invoked = queue
          /\ Len(parsed) = Len(queue)

C23_Step ==
    (IsFolder /\ pc = "raised") => pc' = "idle"

C23_NoPartialOutput == []C23_State /\ [][C23_Step]_vars

C23_Witness ==
    /\ IsFolder
    /\ ~overwrite
    /\ pc = "raised"
    /\ outcome = "Exception"
    /\ Len(queue) = 3
    /\ Len(invoked) = 2

----------------------------------------------------------------------------
(* Further properties of Tree and of the folder merge *)

C24_State ==
    "merge_duplicate_keys" \notin Range(history) => receiver = ParseStatements(source)

C24_Step ==
    (/\ history' # history
     /\ history'[Len(history')] # "merge_duplicate_keys") => receiver' = receiver

\* C24: get, get_or_default, find_all, find_all_recursively, iteration, keys and
\* len leave the receiver as it was, keys, order and values at every depth,
\* whether the key is present or absent and whether or not the call raises.
C24_ReadOnly == []C24_State /\ [][C24_Step]_vars

C24_Witness ==
    /\ history = <<"get_or_default", "get">>
    /\ arg = "absent"
    /\ raisedT = "KeyError"
    /\ Len(receiver.items) = 2
    /\ receiver = ParseStatements(source)

\* C25: under both policies the keys of the Tree of parse_folder_as_one_file are
\* in the order in which they first occur in the files taken in sorted order: a
\* key that a later file replaces, merges into, appends to or turns into a list
\* keeps its place, a new key goes after the keys before it.
C25_FirstSeenOrder ==
    IsFolder => KeysOf(result.items) = FirstSeenKeys(AllEntries(parsed))

C25_Witness ==
    /\ IsFolder
    /\ overwrite
    /\ pc = "returned"
    /\ parsed = <<Tree(<<Entry("a", Scalar(1))>>),
                  Tree(<<Entry("b", Scalar(2)), Entry("a", Scalar(2))>>)>>
    /\ result = Tree(<<Entry("a", Scalar(2)), Entry("b", Scalar(2))>>)

\* no value of the Tree is a Tree and no item of a list is one
Flat(t) ==
    \A i \in DOMAIN t.items :
        /\ ~IsTree(t.items[i].value)
        /\ IsList(t.items[i].value) =>
              \A j \in DOMAIN t.items[i].value.items : t.items[i].value.items[j].kind = "scalar"

\* C26: on a Tree without nested Trees find_all_recursively yields for every key
\* what find_all yields, also for a key whose stored value is a list.
C26_LikeFindAllOnFlatTrees ==
    (Method = "find_all_recursively" /\ Flat(receiver))
        => out = FindAll(receiver.items, arg).out

\* C27: merge_duplicate_keys leaves the top-level keys and their order, leaves
\* every top-level value that is not a list of Trees as it was, and the Tree it
\* puts in the place of a list of Trees holds values of those Trees as they
\* were: a list nested in a top-level Tree or in the Trees of a list stays a list.
C27_Step ==
    history' = Append(history, "merge_duplicate_keys") =>
        /\ KeysOf(receiver'.items) = KeysOf(receiver.items)
        /\ \A i \in DOMAIN receiver.items :
              LET old == receiver.items[i].value
                  new == receiver'.items[i].value
              IN  IF ~IsListOfTrees(old) THEN new = old
                  ELSE raisedT' = "" =>
                          \A j \in DOMAIN new.items :
                              \E k \in DOMAIN old.items :
                                  /\ Contains(old.items[k].items, new.items[j].key)
                                  /\ GetItem(old.items[k].items, new.items[j].key)
                                        = new.items[j].value

C27_TopLevelOnly == [][C27_Step]_vars

C27_Witness ==
    /\ history = <<"merge_duplicate_keys">>
    /\ raisedT = ""
    /\ KeysOf(receiver.items) = <<"a", "b">>
    /\ IsTree(GetItem(receiver.items, "a"))
    /\ IsTree(GetItem(receiver.items, "b"))
    /\ KeysOf(GetItem(receiver.items, "a").items) = <<"c", "y">>
    /\ KeysOf(GetItem(receiver.items, "b").items) = <<"c">>
    /\ IsListOfTrees(GetItem(GetItem(receiver.items, "a").items, "c"))
    /\ GetItem(GetItem(receiver.items, "a").items, "y") = Scalar(1)
    /\ IsListOfTrees(GetItem(GetItem(receiver.items, "b").items, "c"))

\* C28: parse_folder_as_one_file that keeps duplicate top-level keys raises only
\* what the parse of a file raises: whatever the kinds of the value a key has
\* and of the value a later file gives it, the merge raises nothing.
C28_MergeNeverRaises ==
    (IsFolder /\ ~overwrite /\ pc = "raised") => outcome \in {"Exception", "OSError"}

\* C29: merge_duplicate_keys raises nothing and returns the receiver, whatever
\* Tree the parser produced, a list that mixes Trees with numbers included; it
\* never stops with some keys merged and others not.
C29_MergeDuplicateKeysNeverRaises ==
    Method = "merge_duplicate_keys" =>
        /\ raisedT = ""
        /\ out = <<receiver>>

C30_State ==
    /\ ~workarounds => tempFilename = <<>> /\ tempFiles = {}
    /\ (workarounds /\ pc \in {"rewrite_pending", "invoked"}) =>
          /\ tempFilename \in TempNames
          /\ tempFilename \notin GamePaths
          /\ tempFiles = {tempFilename}
    /\ (pc = "raised" /\ outcome = "Exception") =>
          IF workarounds THEN error.path \in TempNames ELSE error.path = queue[idx]

C30_Step ==
    /\ tempFiles' \ tempFiles # {} =>
          /\ workarounds
          /\ pc = "enter"
          /\ pc' = "rewrite_pending"
          /\ tempFiles' \ tempFiles = {tempFilename'}
    /\ tempFiles \ tempFiles' \subseteq {tempFilename}
    /\ (tempFiles \ tempFiles') \cap GamePaths = {}
    /\ (pc = "invoked" /\ pc' = "raised" /\ outcome' = "Exception") =>
          error'.path = IF workarounds THEN tempFilename ELSE queue[idx]

\* C30: a call without workarounds creates no temporary file and runs rakaly on
\* the game file; a call with workarounds runs rakaly on the temporary file it
\* has just created, which is no game file, and removes that file and no other.
C30_DirectPathAndOwnTempFile == []C30_State /\ [][C30_Step]_vars

C30_Witness ==
    /\ workarounds
    /\ pc = "raised"
    /\ outcome = "Exception"
    /\ error.path \in TempNames
    /\ error.path \notin tempFiles
    /\ Len(invoked) = 2

====
